---- MODULE Spec2Model ----
(***************************************************************************)
(* A model of chess_tools.game.board: the Square value type and the Board  *)
(* occupancy container (put / remove), with the Python object model they   *)
(* rest on: Square instances are heap objects with identity, Board.squares *)
(* is a dict that finds a key by stored hash, then identity, then __eq__.  *)
(***************************************************************************)
EXTENDS Integers, Sequences, FiniteSets

\* ------------------------------------------------------------------ bounds

\* Square instances the caller of a Board holds.
MaxSquares == 2
\* Square instances built in a run of constructor calls.
MaxBuilt == 1
\* Largest coordinate (and board dimension) passed to a constructor.
MaxCoord == 2
\* Field assignments to Squares made in a run.
MaxWrites == 1

\* ------------------------------------------------------------------ values

\* enums.Color
WHITE == "white"
BLACK == "black"

\* A Python argument value: its runtime type and, for numbers, its value.
IntVal(n) == [type |-> "int", val |-> n]
StrVal == [type |-> "str", val |-> 0]
FloatVal == [type |-> "float", val |-> MaxCoord]
TrueVal == [type |-> "bool", val |-> 1]
NoneVal == [type |-> "NoneType", val |-> 0]

\* The arguments tried on Square(col, row): integers around the limit 1, a
\* string, a positive float and True.
ArgVals == {IntVal(n) : n \in 0..MaxCoord} \cup {StrVal, FloatVal, TrueVal}

\* The arguments tried on Board(dimension).
DimArgs == {IntVal(0), IntVal(1), IntVal(MaxCoord), StrVal, FloatVal, TrueVal}

\* A reference to the Square instance at heap address i.
SquareRef(i) == [type |-> "Square", val |-> i]

\* Concrete pieces (piece.py): the class and the color given to __init__.
King(color) == [type |-> "King", val |-> color]
Pawn(color) == [type |-> "Pawn", val |-> color]
PieceClasses == {"King", "Queen", "Rook", "Knight", "Bishop", "Pawn"}
Pieces == {King(WHITE), Pawn(BLACK)}
PieceArgs == Pieces \cup {StrVal}

\* isinstance(v, int): bool is a subclass of int.
isinstance_int(v) == v.type \in {"int", "bool"}
isinstance_ChessPiece(v) == v.type \in PieceClasses
isinstance_Square(v) == v.type = "Square"

\* Results of a call.
OK == "ok"
TypeError == "TypeError"
ChessToolsException == "ChessToolsException"

\* Field value of a Square whose `color` has not been read yet.
NoCache == "unset"
\* `dimension` before any Board exists.
NoBoard == NoneVal
\* No piece on a square.
NoPiece == NoneVal

VARIABLES heap, dimension, squares, last, pre, placed, writes

vars == <<heap, dimension, squares, last, pre, placed, writes>>

\* ------------------------------------------------------------------ Square

\* hash((col, row)): a function of the two coordinates alone. Distinct pairs
\* may collide (as CPython's do for large integers), so a dict lookup cannot
\* rely on the hash alone.
TupleHash(col, row) == (col + col + row) % (MaxCoord + 1)

\* Square.__hash__ of the instance at address i.
Square_hash(h, i) == TupleHash(h[i].col, h[i].row)

\* Variant: object identity, as with @dataclass(eq=False).
Square_eq_identity(h, i, j) == i = j

\* Square.__eq__ as @dataclass generates it: the field tuples are compared.
Square_eq(h, i, j) == <<h[i].col, h[i].row>> = <<h[j].col, h[j].row>>

\* Variant: the range check made before the type check.
Square_post_init_range_first(col, row) ==
    IF row.val < 1 \/ col.val < 1 THEN ChessToolsException
    ELSE IF ~(isinstance_int(row) /\ isinstance_int(col)) THEN TypeError
    ELSE OK

\* Square.__post_init__: the outcome of the validation.
Square_post_init(col, row) ==
    IF ~(isinstance_int(row) /\ isinstance_int(col)) THEN TypeError
    ELSE IF row.val < 1 \/ col.val < 1 THEN ChessToolsException
    ELSE OK

\* The instance Square(col, row) leaves on the heap.
Square_new(col, row) == [col |-> col.val, row |-> row.val, color |-> NoCache]

\* Variant: white at (1,1), as the docstring of `color` has it.
Square_color_white_first(sq) == IF (sq.row + sq.col) % 2 # 0 THEN BLACK ELSE WHITE

\* The body of Square.color.
Square_color(sq) == IF (sq.row + sq.col) % 2 # 0 THEN WHITE ELSE BLACK

\* functools.cached_property: the value stored on first access is returned
\* from then on.
cached_color(sq) == IF sq.color # NoCache THEN sq.color ELSE Square_color(sq)

\* ------------------------------------------------------------------ dict

\* An entry of Board.squares: the key object, the hash stored at insertion
\* and the value.
Entry(k, hash, v) == [key |-> k, hash |-> hash, val |-> v]

\* Variant: a lookup that trusts the hash and never compares keys.
dict_lookup_hash_only(d, h, k) == {e \in d : e.hash = Square_hash(h, k)}

\* The entries a lookup of heap object k finds: stored hash first, then
\* identity, then __eq__.
dict_lookup(d, h, k) ==
    {e \in d : e.hash = Square_hash(h, k) /\ (e.key = k \/ Square_eq(h, e.key, k))}

\* `square in self.squares`
dict_contains(d, h, k) == dict_lookup(d, h, k) # {}

\* `self.squares[square] = piece`: an existing entry keeps its key.
dict_setitem(d, h, k, v) ==
    IF dict_contains(d, h, k)
    THEN (d \ dict_lookup(d, h, k))
         \cup {Entry(e.key, e.hash, v) : e \in dict_lookup(d, h, k)}
    ELSE d \cup {Entry(k, Square_hash(h, k), v)}

\* Variant: only the entry whose key is the very object passed is deleted.
dict_delitem_identity(d, h, k) == d \ {e \in d : e.key = k}

\* Variant: every entry in the key's hash bucket is deleted.
dict_delitem_bucket(d, h, k) == d \ {e \in d : e.hash = Square_hash(h, k)}

\* `del self.squares[square]`
dict_delitem(d, h, k) == d \ dict_lookup(d, h, k)

\* ------------------------------------------------------------------ Board

\* Variant: a non-integer dimension reported as a type error.
Board_post_init_type_error(dim) ==
    IF ~isinstance_int(dim) THEN TypeError
    ELSE IF dim.val < 1 THEN ChessToolsException
    ELSE OK

\* Board.__post_init__: the outcome of the validation.
Board_post_init(dim) ==
    IF ~isinstance_int(dim) THEN ChessToolsException
    ELSE IF dim.val < 1 THEN ChessToolsException
    ELSE OK

\* Variant: the type error raised only when both arguments are wrong.
put_result_both_wrong(d, h, piece, square) ==
    IF ~isinstance_ChessPiece(piece) /\ ~isinstance_Square(square) THEN TypeError
    ELSE IF ~isinstance_Square(square) THEN TypeError
    ELSE IF dict_contains(d, h, square.val) THEN ChessToolsException
    ELSE OK

\* Board.put: the branch taken.
put_result(d, h, piece, square) ==
    IF ~isinstance_ChessPiece(piece) \/ ~isinstance_Square(square) THEN TypeError
    ELSE IF dict_contains(d, h, square.val) THEN ChessToolsException
    ELSE OK

\* Variant: the piece is stored before the occupancy error is raised.
put_squares_overwrite(d, h, piece, square) ==
    IF put_result(d, h, piece, square) # TypeError
    THEN dict_setitem(d, h, square.val, piece)
    ELSE d

\* Board.put: `squares` after the call.
put_squares(d, h, piece, square) ==
    IF put_result(d, h, piece, square) = OK
    THEN dict_setitem(d, h, square.val, piece)
    ELSE d

\* Board.remove: the branch taken.
remove_result(d, h, square) ==
    IF ~isinstance_Square(square) THEN TypeError
    ELSE IF ~dict_contains(d, h, square.val) THEN ChessToolsException
    ELSE OK

\* Board.remove: `squares` after the call.
remove_squares(d, h, square) ==
    IF remove_result(d, h, square) = OK
    THEN dict_delitem(d, h, square.val)
    ELSE d

\* ------------------------------------------------------------------ state

\* Coordinate pairs a Square field pair can hold (0 only after a field is
\* reassigned).
Coords == (0..MaxCoord) \X (0..MaxCoord)

\* The coordinates of the instance at address i.
CoordsOf(h, i) == <<h[i].col, h[i].row>>

\* What the caller passes as `square`: any live Square, or a string.
SquareArgs == {SquareRef(i) : i \in 1..Len(heap)} \cup {StrVal}

Snapshot == [heap |-> heap, dimension |-> dimension, squares |-> squares]

Call(op, a, b, result) == [op |-> op, a |-> a, b |-> b, result |-> result]

\* The instances the constructor can produce.
ConstructedSquares ==
    {Square_new(p[1], p[2]) :
        p \in {q \in ArgVals \X ArgVals : Square_post_init(q[1], q[2]) = OK}}

\* Addresses carry no meaning, so the instances a caller holds are listed in
\* coordinate order.
Rank(sq) == sq.col * (MaxCoord + 1) + sq.row

CallerHeaps ==
    {h \in [1..MaxSquares -> ConstructedSquares] :
        \A i \in 1..(MaxSquares - 1) : Rank(h[i]) <= Rank(h[i + 1])}

\* A run of constructor calls and color reads: nothing exists yet.
InitSquare ==
    /\ heap = <<>>
    /\ dimension = NoBoard
    /\ squares = {}
    /\ last = Call("init", NoneVal, NoneVal, OK)
    /\ pre = [heap |-> <<>>, dimension |-> NoBoard, squares |-> {}]
    /\ placed = [xy \in Coords |-> NoPiece]
    /\ writes = 0

\* A run of Board calls: the caller holds MaxSquares Square instances.
Init ==
    /\ heap \in CallerHeaps
    /\ dimension = NoBoard
    /\ squares = {}
    /\ last = Call("init", NoneVal, NoneVal, OK)
    /\ pre = [heap |-> heap, dimension |-> NoBoard, squares |-> {}]
    /\ placed = [xy \in Coords |-> NoPiece]
    /\ writes = 0

\* Square(col, row)
NewSquare(col, row) ==
    LET res == Square_post_init(col, row) IN
    /\ res = OK => Len(heap) < MaxBuilt
    /\ heap' = IF res = OK THEN Append(heap, Square_new(col, row)) ELSE heap
    /\ last' = Call("Square", col, row, res)
    /\ pre' = Snapshot
    /\ UNCHANGED <<dimension, squares, placed, writes>>

\* square.color
GetColor(i) ==
    /\ heap' = [heap EXCEPT ![i].color = cached_color(heap[i])]
    /\ last' = Call("color", NoneVal, SquareRef(i), cached_color(heap[i]))
    /\ pre' = Snapshot
    /\ UNCHANGED <<dimension, squares, placed, writes>>

\* square.col = v: @dataclass without frozen=True leaves the generated fields
\* assignable, with no validation and no effect on cached properties.
SetCol(i, v) ==
    /\ writes < MaxWrites
    /\ writes' = writes + 1
    /\ heap' = [heap EXCEPT ![i].col = v]
    /\ last' = Call("setcol", IntVal(v), SquareRef(i), OK)
    /\ pre' = Snapshot
    /\ UNCHANGED <<dimension, squares, placed>>

\* square.row = v
SetRow(i, v) ==
    /\ writes < MaxWrites
    /\ writes' = writes + 1
    /\ heap' = [heap EXCEPT ![i].row = v]
    /\ last' = Call("setrow", IntVal(v), SquareRef(i), OK)
    /\ pre' = Snapshot
    /\ UNCHANGED <<dimension, squares, placed>>

\* Board(dimension)
NewBoard(dim) ==
    LET res == Board_post_init(dim) IN
    /\ dimension = NoBoard
    /\ dimension' = IF res = OK THEN dim ELSE dimension
    /\ squares' = IF res = OK THEN {} ELSE squares
    /\ last' = Call("Board", dim, NoneVal, res)
    /\ pre' = Snapshot
    /\ UNCHANGED <<heap, placed, writes>>

\* board.put(piece, square)
Put(piece, square) ==
    LET res == put_result(squares, heap, piece, square) IN
    /\ dimension # NoBoard
    /\ squares' = put_squares(squares, heap, piece, square)
    /\ placed' = IF res = OK
                 THEN [placed EXCEPT ![CoordsOf(heap, square.val)] = piece]
                 ELSE placed
    /\ last' = Call("put", piece, square, res)
    /\ pre' = Snapshot
    /\ UNCHANGED <<heap, dimension, writes>>

\* board.remove(square)
Remove(square) ==
    LET res == remove_result(squares, heap, square) IN
    /\ dimension # NoBoard
    /\ squares' = remove_squares(squares, heap, square)
    /\ placed' = IF res = OK
                 THEN [placed EXCEPT ![CoordsOf(heap, square.val)] = NoPiece]
                 ELSE placed
    /\ last' = Call("remove", NoneVal, square, res)
    /\ pre' = Snapshot
    /\ UNCHANGED <<heap, dimension, writes>>

NextSquare ==
    \/ \E col \in ArgVals, row \in ArgVals : NewSquare(col, row)
    \/ \E i \in 1..Len(heap) : GetColor(i)

Next ==
    \/ \E dim \in DimArgs : NewBoard(dim)
    \/ \E piece \in PieceArgs, square \in SquareArgs : Put(piece, square)
    \/ \E square \in SquareArgs : Remove(square)

NextMut ==
    \/ Next
    \/ \E i \in 1..Len(heap) : GetColor(i)
    \/ \E i \in 1..Len(heap), v \in 0..MaxCoord : SetCol(i, v)
    \/ \E i \in 1..Len(heap), v \in 0..MaxCoord : SetRow(i, v)

\* Constructor calls and color reads.
SpecSquare == InitSquare /\ [][NextSquare]_vars

\* Board calls on Squares that are left alone.
Spec == Init /\ [][Next]_vars

\* Board calls, color reads and field assignments.
SpecMut == Init /\ [][NextMut]_vars

\* ------------------------------------------------------------------ claims

\* The entries of dict d whose key has coordinates xy.
EntriesAt(d, h, xy) == {e \in d : CoordsOf(h, e.key) = xy}

\* The live Square instances.
Live == 1..Len(heap)

\* v is an integer (Python counts True and False among them).
IsInteger(v) == v.type \in {"int", "bool"}

\* The last call was `op` with well-typed arguments.
WellTypedPut == last.op = "put" /\ last.a.type \in PieceClasses /\ last.b.type = "Square"
WellTypedRemove == last.op = "remove" /\ last.b.type = "Square"

\* C1: a coordinate pair has an entry in `squares` exactly when the last
\* successful call on it was a put, and then it has one entry, holding the
\* piece that put was given; a live Square is found in `squares` exactly then.
C1_Occupancy ==
    /\ \A xy \in Coords :
        LET es == EntriesAt(squares, heap, xy) IN
        IF placed[xy] = NoPiece
        THEN es = {}
        ELSE Cardinality(es) = 1 /\ \A e \in es : e.val = placed[xy]
    /\ \A i \in Live :
        dict_contains(squares, heap, i) <=> placed[CoordsOf(heap, i)] # NoPiece

\* A remove has succeeded on one square while a piece put on another stands.
C1_Witness ==
    /\ last.op = "remove" /\ last.result = OK
    /\ \E xy \in Coords : xy # CoordsOf(heap, last.b.val) /\ placed[xy] # NoPiece

\* C2: a put or remove that raises leaves `squares` (keys and pieces) and
\* `dimension` as they were before the call.
C2_FailureAtomic ==
    (last.op \in {"put", "remove"} /\ last.result # OK) =>
        /\ squares = pre.squares
        /\ dimension = pre.dimension
        /\ heap = pre.heap

\* A put of a different piece on an occupied square has failed.
C2_Witness ==
    /\ last.op = "put" /\ last.result = ChessToolsException
    /\ \E e \in EntriesAt(squares, heap, CoordsOf(heap, last.b.val)) : e.val # last.a

\* C3: a put of a piece on a Square that is not a key succeeds, whatever the
\* dimension; afterwards the square maps to that piece, every other entry is
\* as before and `dimension` is unchanged.
C3_PutEffect ==
    (/\ WellTypedPut
     /\ EntriesAt(pre.squares, pre.heap, CoordsOf(pre.heap, last.b.val)) = {}) =>
        /\ last.result = OK
        /\ \E e \in squares :
            /\ e.key = last.b.val /\ e.val = last.a
            /\ e \notin pre.squares
            /\ squares = pre.squares \cup {e}
            /\ dict_lookup(squares, heap, last.b.val) = {e}
        /\ dimension = pre.dimension

\* A put has succeeded on a square beyond the board's dimension while another
\* square was occupied.
C3_Witness ==
    /\ last.op = "put" /\ last.result = OK
    /\ pre.squares # {}
    /\ heap[last.b.val].col > dimension.val

\* C4: remove on an occupied square succeeds and deletes that square's entry
\* alone, after which the square can be put again; and a remove right after a
\* successful put gives back `squares` as it was before the put.
C4_RoundTrip ==
    /\ (/\ WellTypedRemove
        /\ EntriesAt(pre.squares, pre.heap, CoordsOf(pre.heap, last.b.val)) # {}) =>
            /\ last.result = OK
            /\ squares = pre.squares
                 \ EntriesAt(pre.squares, pre.heap, CoordsOf(pre.heap, last.b.val))
            /\ Cardinality(squares) + 1 = Cardinality(pre.squares)
            /\ \A p \in Pieces : put_result(squares, heap, p, last.b) = OK
    /\ (last.op = "put" /\ last.result = OK) =>
            /\ remove_result(squares, heap, last.b) = OK
            /\ remove_squares(squares, heap, last.b) = pre.squares

\* A remove has succeeded and left another entry in place.
C4_Witness ==
    /\ last.op = "remove" /\ last.result = OK
    /\ squares # {}
    /\ Cardinality(pre.squares \ squares) = 1

\* C5: put fails with a type error when the piece is no ChessPiece or the
\* square no Square, occupied or not; otherwise with the domain error exactly
\* when the square is a key; remove fails with a type error when the square is
\* no Square, otherwise with the domain error exactly when the square is no
\* key; every other call succeeds.
C5_ErrorClasses ==
    /\ last.op = "put" =>
        last.result =
            IF last.a.type \notin PieceClasses \/ last.b.type # "Square" THEN TypeError
            ELSE IF EntriesAt(pre.squares, pre.heap, CoordsOf(pre.heap, last.b.val)) # {}
                 THEN ChessToolsException
            ELSE OK
    /\ last.op = "remove" =>
        last.result =
            IF last.b.type # "Square" THEN TypeError
            ELSE IF EntriesAt(pre.squares, pre.heap, CoordsOf(pre.heap, last.b.val)) = {}
                 THEN ChessToolsException
            ELSE OK

\* A put of a non-piece on an occupied square has failed with a type error.
C5_Witness ==
    /\ last.op = "put" /\ last.result = TypeError
    /\ last.a.type \notin PieceClasses /\ last.b.type = "Square"
    /\ EntriesAt(squares, heap, CoordsOf(heap, last.b.val)) # {}

\* C6: Square(c, r) with integers c, r >= 1 succeeds and stores them; with
\* integers of which one is below 1 it fails with the domain error; with a
\* non-integer it fails with a type error, whatever the other argument; a
\* failing construction produces no Square.
C6_SquareConstruction ==
    last.op = "Square" =>
        IF ~(IsInteger(last.a) /\ IsInteger(last.b))
        THEN last.result = TypeError /\ heap = pre.heap
        ELSE IF last.a.val < 1 \/ last.b.val < 1
        THEN last.result = ChessToolsException /\ heap = pre.heap
        ELSE /\ last.result = OK
             /\ Len(heap) = Len(pre.heap) + 1
             /\ heap[Len(heap)].col = last.a.val
             /\ heap[Len(heap)].row = last.b.val
             /\ \A i \in 1..Len(pre.heap) : heap[i] = pre.heap[i]

\* A construction with a string and an integer below 1 has failed with a type
\* error.
C6_Witness ==
    /\ last.op = "Square" /\ last.result = TypeError
    /\ last.a.type = "str" /\ last.b = IntVal(0)

\* C7: Board(dimension) succeeds exactly when dimension is an integer >= 1,
\* giving a board of that dimension with no entries; any other argument fails
\* with the domain error and produces no board.
C7_BoardConstruction ==
    last.op = "Board" =>
        IF IsInteger(last.a) /\ last.a.val >= 1
        THEN last.result = OK /\ dimension = last.a /\ squares = {}
        ELSE /\ last.result = ChessToolsException
             /\ dimension = NoBoard
             /\ squares = pre.squares

\* A construction from a string has failed with the domain error.
C7_Witness ==
    last.op = "Board" /\ last.a.type = "str" /\ last.result = ChessToolsException

\* C8: a Square's column and row never change: they stay >= 1, the cached
\* color is the color of the current coordinates, and a Square that is the key
\* of an entry still finds it (put fails as occupied, remove succeeds).
C8_SquareImmutable ==
    \A i \in Live :
        /\ CoordsOf(heap, i) = CoordsOf(pre.heap, i)
        /\ heap[i].col >= 1 /\ heap[i].row >= 1
        /\ heap[i].color # NoCache => heap[i].color = Square_color(heap[i])
        /\ (\E e \in squares : e.key = i) =>
            /\ \A p \in Pieces : put_result(squares, heap, p, SquareRef(i)) = ChessToolsException
            /\ remove_result(squares, heap, SquareRef(i)) = OK

\* C9: Squares are equal exactly when their coordinates match, equal Squares
\* hash alike, and the board treats equal instances as one key: after a
\* successful put, a put on any instance with the same coordinates fails as
\* occupied and a remove on it succeeds, while instances with other
\* coordinates are found, or not, as before.
C9_EqualByCoords ==
    /\ \A i, j \in Live :
        /\ Square_eq(heap, i, j) <=> CoordsOf(heap, i) = CoordsOf(heap, j)
        /\ Square_eq(heap, i, j) => Square_hash(heap, i) = Square_hash(heap, j)
    /\ (last.op = "put" /\ last.result = OK) =>
        \A j \in Live :
            IF CoordsOf(heap, j) = CoordsOf(heap, last.b.val)
            THEN /\ \A p \in Pieces :
                      put_result(squares, heap, p, SquareRef(j)) = ChessToolsException
                 /\ remove_result(squares, heap, SquareRef(j)) = OK
            ELSE dict_contains(squares, heap, j) <=> dict_contains(pre.squares, pre.heap, j)
    /\ (last.op = "remove" /\ last.result = OK) =>
        \A j \in Live :
            IF CoordsOf(heap, j) = CoordsOf(heap, last.b.val)
            THEN ~dict_contains(squares, heap, j)
            ELSE dict_contains(squares, heap, j) <=> dict_contains(pre.squares, pre.heap, j)

\* A remove through one instance has deleted the entry keyed by another.
C9_Witness ==
    /\ last.op = "remove" /\ last.result = OK
    /\ \E e \in pre.squares \ squares : e.key # last.b.val

====
